---------------------------- MODULE Spec2Model ----------------------------
(***************************************************************************)
(* freshtrack-backend: the detection pipeline of                           *)
(* src/services/imageProcessor.js (ImageProcessor and processImage).       *)
(*                                                                         *)
(* Numbers.  Confidences and class scores are hundredths (0.5 is 50).      *)
(* Box coordinates are small integers.  A JavaScript quotient n/d is kept  *)
(* as the pair [num |-> n, den |-> d] and compared the way IEEE-754        *)
(* compares it (0/0 is NaN, n/0 is an infinity); with the small integers   *)
(* used here the rounding of the division cannot change a comparison.      *)
(***************************************************************************)
EXTENDS Integers, Sequences, FiniteSets, TLC

(***************************************************************************)
(* Bounds of the model.                                                    *)
(***************************************************************************)
MaxInvocations == 2
MaxBoxes == 3
MaxPredictions == 2
Width == 2
Height == 2

(***************************************************************************)
(* Program constants.                                                      *)
(***************************************************************************)
\* this.model = null (constructor): handle 0 is "no handle".
NoHandle == 0
\* parseFloat(process.env.CONFIDENCE_THRESHOLD) || 0.5, in hundredths.
DefaultConfidenceThreshold == 50
\* parseFloat(process.env.NMS_THRESHOLD) || 0.4, as the quotient 2/5.
DefaultNmsThreshold == [num |-> 2, den |-> 5]
\* the byte range divisor of the normalisation, img[i] / 255.0
ByteScale == 255

CLASS_NAMES ==
  << "Fresh_Apple", "Fresh_Banana", "Fresh_Beef", "Fresh_Carrot", "Fresh_Chicken",
     "Fresh_Cucumber", "Fresh_Manggo", "Fresh_Okra", "Fresh_Orange", "Fresh_Pepper",
     "Fresh_Pork", "Fresh_Potato", "Fresh_Strawberry",
     "Rotten_Apple", "Rotten_Banana", "Rotten_Beef", "Rotten_Carrot", "Rotten_Chicken",
     "Rotten_Cucumber", "Rotten_Manggo", "Rotten_Okra", "Rotten_Orange", "Rotten_Pepper",
     "Rotten_Pork", "Rotten_Potato", "Rotten_Strawberry" >>

\* An environment variable is <<>> (unset) or <<v>>; parseFloat of an unset
\* variable is NaN, and NaN and 0 are falsy, so both fall to the default.
ParseOrDefault(env, default) ==
  IF env = <<>> THEN default
  ELSE IF env[1] = 0 THEN default
  ELSE env[1]

CONFIDENCE_THRESHOLD(env) == ParseOrDefault(env, DefaultConfidenceThreshold)

\* The same for a quotient: <<q>> with q.num = 0 is the number 0.
NMS_THRESHOLD(env) ==
  IF env = <<>> THEN DefaultNmsThreshold
  ELSE IF env[1].num = 0 THEN DefaultNmsThreshold
  ELSE env[1]

(***************************************************************************)
(* Arithmetic helpers.                                                     *)
(***************************************************************************)
Max(a, b) == IF a >= b THEN a ELSE b
Min(a, b) == IF a <= b THEN a ELSE b

\* q < k in JavaScript, q a quotient that may divide by zero, k a quotient
\* with k.den > 0.  NaN (0/0) and +Infinity compare false, -Infinity true.
LessThan(q, k) ==
  IF q.den = 0 THEN q.num < 0
  ELSE IF q.den > 0 THEN q.num * k.den < k.num * q.den
  ELSE q.num * k.den > k.num * q.den

(***************************************************************************)
(* nonMaxSuppression.                                                      *)
(***************************************************************************)
\* the closure iou(a, b): (x, y) is used as the corner the box starts at.
iou(a, b) ==
  LET xA == Max(a.x, b.x)
      yA == Max(a.y, b.y)
      xB == Min(a.x + a.width, b.x + b.width)
      yB == Min(a.y + a.height, b.y + b.height)
      interArea == Max(0, xB - xA) * Max(0, yB - yA)
      boxAArea == a.width * a.height
      boxBArea == b.width * b.height
  IN [num |-> interArea, den |-> boxAArea + boxBArea - interArea]

\* a comparator that orders equal confidences as if the second were greater.
CompareTiesSwapped(a, b) == IF b.confidence >= a.confidence THEN 1 ELSE 0 - 1

\* a comparator that sorts by ascending confidence.
CompareAscending(a, b) == a.confidence - b.confidence

\* the comparator (a, b) => b.confidence - a.confidence: negative when a
\* comes first.
Compare(a, b) == b.confidence - a.confidence

\* Array.prototype.sort is stable: an element is inserted after every element
\* that does not compare greater than it.
RECURSIVE InsertSorted(_, _)
InsertSorted(s, e) ==
  IF s = <<>> THEN <<e>>
  ELSE IF Compare(Head(s), e) <= 0 THEN <<Head(s)>> \o InsertSorted(Tail(s), e)
  ELSE <<e>> \o s

RECURSIVE SortBoxes(_)
SortBoxes(s) ==
  IF s = <<>> THEN <<>>
  ELSE InsertSorted(SortBoxes(SubSeq(s, 1, Len(s) - 1)), s[Len(s)])

\* a filter that also keeps a box whose IoU is exactly the threshold (<=).
KeepsInclusive(current, b, threshold) ==
  \/ LessThan(iou(current, b), threshold)
  \/ /\ iou(current, b).den # 0
     /\ iou(current, b).num * threshold.den = threshold.num * iou(current, b).den

\* the predicate of boxes.filter: b stays when iou(current, b) < threshold.
Keeps(current, b, threshold) == LessThan(iou(current, b), threshold)

FilterBoxes(current, s, threshold) ==
  SelectSeq(s, LAMBDA b : Keeps(current, b, threshold))

\* the while loop: shift the head into selected, filter the rest.
RECURSIVE SuppressLoop(_, _, _)
SuppressLoop(boxes, selected, threshold) ==
  IF Len(boxes) = 0 THEN selected
  ELSE SuppressLoop(FilterBoxes(Head(boxes), Tail(boxes), threshold),
                    Append(selected, Head(boxes)), threshold)

\* the value nonMaxSuppression returns.
nonMaxSuppression(boxes, threshold) ==
  IF Len(boxes) = 0 THEN <<>>
  ELSE SuppressLoop(SortBoxes(boxes), <<>>, threshold)

\* what the call leaves in the caller's array: sort() sorts it in place and
\* the first shift() removes its head; every later round works on the copy
\* that filter() made.
ArrayAfterSuppression(boxes) ==
  IF Len(boxes) = 0 THEN boxes
  ELSE Tail(SortBoxes(boxes))

(***************************************************************************)
(* postprocess.  A raw output is [data |-> flat sequence, dims |->          *)
(* <<batch, numPredictions, numAttributes>>]; data[k] of the code is       *)
(* data[k + 1] here.  A class index is <<>> (null) or <<k>>.               *)
(***************************************************************************)
\* the inner loop over j = 5 .. numAttributes - 1, from bestClass = null and
\* bestScore = 0: a score replaces the best one only when strictly greater.
RECURSIVE BestClassLoop(_, _, _, _, _, _)
BestClassLoop(data, offset, numAttributes, j, bestClass, bestScore) ==
  IF j >= numAttributes THEN bestClass
  ELSE IF data[offset + j + 1] > bestScore
       THEN BestClassLoop(data, offset, numAttributes, j + 1, <<j - 5>>,
                          data[offset + j + 1])
       ELSE BestClassLoop(data, offset, numAttributes, j + 1, bestClass, bestScore)

BestClass(data, offset, numAttributes) ==
  BestClassLoop(data, offset, numAttributes, 5, <<>>, 0)

\* the template literal `Unknown_${bestClass}`: null prints as "null".
UnknownLabel(bestClass) ==
  IF bestClass = <<>> THEN "Unknown_null"
  ELSE "Unknown_" \o ToString(bestClass[1])

\* a lookup that falls back to a fixed label, without the index.
LabelWithoutIndex(bestClass) ==
  IF bestClass # <<>> /\ bestClass[1] >= 0 /\ bestClass[1] < Len(CLASS_NAMES)
  THEN CLASS_NAMES[bestClass[1] + 1]
  ELSE "Unknown"

\* CLASS_NAMES[bestClass] || `Unknown_${bestClass}`: an index outside the
\* table (or null) reads undefined, which is falsy; no name is empty.
Label(bestClass) ==
  IF bestClass # <<>> /\ bestClass[1] >= 0 /\ bestClass[1] < Len(CLASS_NAMES)
  THEN CLASS_NAMES[bestClass[1] + 1]
  ELSE UnknownLabel(bestClass)

\* a test against the built-in 0.5, whatever the environment configures.
AdmitsAtDefault(conf, confidenceThreshold) == conf >= DefaultConfidenceThreshold

\* the test that admits a slot: conf >= CONFIDENCE_THRESHOLD.
Admits(conf, confidenceThreshold) == conf >= confidenceThreshold

\* the candidate pushed for the slot at offset.
Detection(data, offset, numAttributes) ==
  LET bestClass == BestClass(data, offset, numAttributes)
  IN [x |-> data[offset + 1], y |-> data[offset + 2],
      width |-> data[offset + 3], height |-> data[offset + 4],
      confidence |-> data[offset + 5],
      class_id |-> bestClass, label |-> Label(bestClass)]

\* the loop over the prediction slots i = 0 .. numPredictions - 1.
RECURSIVE DecodeLoop(_, _, _, _, _)
DecodeLoop(output, i, detections, confidenceThreshold, numAttributes) ==
  IF i >= output.dims[2] THEN detections
  ELSE LET offset == i * numAttributes
           conf == output.data[offset + 5]
       IN DecodeLoop(output, i + 1,
                     IF Admits(conf, confidenceThreshold)
                     THEN Append(detections,
                                 Detection(output.data, offset, numAttributes))
                     ELSE detections,
                     confidenceThreshold, numAttributes)

\* the array detections as it is handed to nonMaxSuppression.
Decode(output, confidenceThreshold) ==
  DecodeLoop(output, 0, <<>>, confidenceThreshold, output.dims[3])

\* the value postprocess returns.
postprocess(output, e) ==
  nonMaxSuppression(Decode(output, CONFIDENCE_THRESHOLD(e.CONFIDENCE_THRESHOLD)),
                    NMS_THRESHOLD(e.NMS_THRESHOLD))

(***************************************************************************)
(* preprocessImage.  A resized image maps <<x, y>> (column, row) to its    *)
(* [r, g, b] bytes; a tensor value is the quotient byte / 255.             *)
(***************************************************************************)
Channel(px, c) == IF c = 0 THEN px.r ELSE IF c = 1 THEN px.g ELSE px.b

Normalize(byte) == [num |-> byte, den |-> ByteScale]

\* sharp(...).raw().toBuffer(): the three bytes of a pixel follow each other,
\* pixels row by row.
RawBuffer(image, width, height) ==
  [i \in 1..(width * height * 3) |->
     Channel(image[<<((i - 1) \div 3) % width, ((i - 1) \div 3) \div width>>],
             (i - 1) % 3)]

\* the copy loop of the sharp branch: imageData[i] = img[i] / 255.0.
SharpData(image, width, height) ==
  LET img == RawBuffer(image, width, height)
  IN [i \in 1..Len(img) |-> Normalize(img[i])]

\* jimpFallback: for y, for x: data[i++] = r / 255, g / 255, b / 255.
JimpData(image, width, height) ==
  [i \in 1..(3 * width * height) |->
     LET k == (i - 1) \div 3
         x == k % width
         y == k \div width
     IN Normalize(Channel(image[<<x, y>>], (i - 1) % 3))]

\* new ort.Tensor("float32", imageData, [1, 3, height, width])
Tensor(imageData, width, height) ==
  [data |-> imageData, dims |-> <<1, 3, height, width>>]

(***************************************************************************)
(* State.                                                                  *)
(***************************************************************************)
VARIABLES
  env,           \* process.env: CONFIDENCE_THRESHOLD and NMS_THRESHOLD
  sharp,         \* whether require("sharp") succeeded at module load
  model,         \* imageProcessor.model
  modelLoaded,   \* imageProcessor.modelLoaded
  created,       \* handles InferenceSession.create has returned so far
  loadFailed,    \* whether a call of InferenceSession.create has thrown
  retried,       \* whether a processImage invocation has called
                 \* InferenceSession.create after such a failure
  preloadPc,     \* where the preloadModel() call is
  pc,            \* where each processImage invocation is
  local,         \* const model of each detectObjects
  file,          \* the uploaded file of each invocation, on disk
  raw,           \* the raw output model.run gave each invocation
  intended,      \* what try/catch settled on before the finally block ran
  result,        \* what the caller of each invocation observes
  trace,         \* the calls each invocation has made on its file and on
                 \* the model handle, in order
  output,        \* postprocess: its argument
  detections,    \* postprocess: the array handed to nonMaxSuppression
  postReturned,  \* postprocess: the values returned so far
  input,         \* nonMaxSuppression: the candidates as first passed in
  boxes,         \* nonMaxSuppression: the caller's array
  threshold,     \* nonMaxSuppression: the threshold passed
  kept,          \* nonMaxSuppression: the array the first call returned
  returned,      \* nonMaxSuppression: the values returned so far
  image,         \* preprocessImage: the resized image
  decodable,     \* preprocessImage: which decoder can read the file
  tensor         \* preprocessImage: <<>>, <<tensor>> or <<"error">>

procVars == <<sharp, model, modelLoaded, created, loadFailed, retried, preloadPc, pc,
              local, file, raw, intended, result, trace>>
postVars == <<output, detections, postReturned>>
nmsVars == <<input, boxes, threshold, kept, returned>>
prepVars == <<image, decodable, tensor>>
vars == <<env, procVars, postVars, nmsVars, prepVars>>

Invocations == 1..MaxInvocations

(***************************************************************************)
(* Inputs.                                                                 *)
(***************************************************************************)
NoEnv == [CONFIDENCE_THRESHOLD |-> <<>>, NMS_THRESHOLD |-> <<>>]

Quotient(n, d) == [num |-> n, den |-> d]

Box(bx, by, bw, bh) == [x |-> bx, y |-> by, width |-> bw, height |-> bh]

\* box geometries: two boxes of zero area, boxes that share half, a third or
\* a fifth of their union, boxes that do not meet, and a box inside another.
Geometries ==
  { Box(0, 0, 0, 1), Box(1, 0, 0, 1), Box(0, 0, 1, 1), Box(0, 0, 2, 1),
    Box(1, 0, 2, 1), Box(0, 0, 2, 2) }

Confidences == {30, 50, 90}

Candidate(g, c) ==
  [x |-> g.x, y |-> g.y, width |-> g.width, height |-> g.height,
   confidence |-> c, class_id |-> <<0>>, label |-> CLASS_NAMES[1]]

Candidates == { Candidate(g, c) : g \in Geometries, c \in {50, 90} }

Thresholds == { Quotient(0, 1), Quotient(2, 5), Quotient(1, 2), Quotient(1, 1) }

RECURSIVE SeqsUpTo(_, _)
SeqsUpTo(S, n) ==
  IF n = 0 THEN { <<>> }
  ELSE LET shorter == SeqsUpTo(S, n - 1)
       IN shorter \cup { Append(q, e) : q \in { r \in shorter : Len(r) = n - 1 }, e \in S }

\* raw outputs: per slot a geometry, an objectness and a vector of class
\* scores; 0, 2, 27 or 100 classes (the label table has 26 names).
PostGeometries == { Box(0, 0, 2, 1), Box(1, 0, 2, 1) }

OneHot(n, k, v) == [i \in 1..n |-> IF i = k + 1 THEN v ELSE 0]

\* the class that scores highest: the last name of the table (25), the
\* first index past it (26) and index 99.
HotIndices(n) == IF n = 100 THEN {99} ELSE IF n = 27 THEN {25, 26} ELSE {1}

\* with two classes also: no score above 0, a tie and negative scores.
ScoreVectors(n) ==
  IF n = 0 THEN { <<>> }
  ELSE { OneHot(n, k, 80) : k \in HotIndices(n) }
       \cup (IF n = 2 THEN { <<0, 0>>, <<80, 80>>, <<0 - 10, 0 - 20>> } ELSE {})

SlotData(g, c, scores) == <<g.x, g.y, g.width, g.height, c>> \o scores

Slots(n) ==
  { SlotData(g, c, v) : g \in PostGeometries, c \in Confidences, v \in ScoreVectors(n) }

RECURSIVE Flatten(_)
Flatten(ss) == IF ss = <<>> THEN <<>> ELSE Head(ss) \o Flatten(Tail(ss))

RawOutputsOf(n) ==
  { [data |-> Flatten(ss), dims |-> <<1, Len(ss), 5 + n>>] :
      ss \in SeqsUpTo(Slots(n), MaxPredictions) }

RawOutputs == UNION { RawOutputsOf(n) : n \in {0, 2, 27, 100} }

Envs ==
  { [CONFIDENCE_THRESHOLD |-> c, NMS_THRESHOLD |-> <<>>] : c \in { <<>>, <<0>>, <<30>>, <<90>> } }
  \cup { [CONFIDENCE_THRESHOLD |-> <<>>, NMS_THRESHOLD |-> <<q>>] :
           q \in { Quotient(0, 1), Quotient(1, 4) } }

(***************************************************************************)
(* nonMaxSuppression called on a list, then on the array it returned.      *)
(***************************************************************************)
ProcIdle ==
  /\ model = NoHandle
  /\ modelLoaded = FALSE
  /\ created = 0
  /\ loadFailed = FALSE
  /\ retried = FALSE
  /\ preloadPc = "idle"
  /\ pc = [p \in Invocations |-> "idle"]
  /\ local = [p \in Invocations |-> NoHandle]
  /\ file = [p \in Invocations |-> [exists |-> FALSE, sharpOk |-> FALSE, jimpOk |-> FALSE]]
  /\ raw = [p \in Invocations |-> <<>>]
  /\ intended = [p \in Invocations |-> [kind |-> "pending"]]
  /\ result = [p \in Invocations |-> [kind |-> "pending"]]
  /\ trace = [p \in Invocations |-> <<>>]

PostIdle ==
  /\ output = [data |-> <<>>, dims |-> <<1, 0, 5>>]
  /\ detections = <<>>
  /\ postReturned = <<>>

NmsIdle ==
  /\ input = <<>>
  /\ boxes = <<>>
  /\ threshold = DefaultNmsThreshold
  /\ kept = <<>>
  /\ returned = <<>>

PrepIdle ==
  /\ image = <<>>
  /\ decodable = [sharp |-> FALSE, jimp |-> FALSE]
  /\ tensor = <<>>

InitNMS ==
  /\ sharp = TRUE
  /\ env = NoEnv
  /\ ProcIdle /\ PostIdle /\ PrepIdle
  /\ input \in SeqsUpTo(Candidates, MaxBoxes)
  /\ boxes = input
  /\ threshold \in Thresholds
  /\ kept = <<>>
  /\ returned = <<>>

\* selected = nonMaxSuppression(boxes, threshold)
Suppress ==
  /\ Len(returned) = 0
  /\ returned' = <<nonMaxSuppression(boxes, threshold)>>
  /\ kept' = nonMaxSuppression(boxes, threshold)
  /\ boxes' = ArrayAfterSuppression(boxes)
  /\ UNCHANGED <<env, procVars, postVars, prepVars, input, threshold>>

\* nonMaxSuppression(selected, threshold), on the array the first call returned
SuppressAgain ==
  /\ Len(returned) = 1
  /\ returned' = Append(returned, nonMaxSuppression(kept, threshold))
  /\ kept' = ArrayAfterSuppression(kept)
  /\ UNCHANGED <<env, procVars, postVars, prepVars, input, boxes, threshold>>

NextNMS == Suppress \/ SuppressAgain

SpecNMS == InitNMS /\ [][NextNMS]_vars

\* C2: in the list nonMaxSuppression returns, every pair of distinct
\* candidates has an IoU (as the function computes it, in either order)
\* that compares below the threshold passed.
C2_KeptPairsBelowThreshold ==
  \A r \in 1..Len(returned) :
    \A i, j \in 1..Len(returned[r]) :
      i # j => LessThan(iou(returned[r][i], returned[r][j]), threshold)

\* a call that kept at least two candidates and suppressed at least one
C2_Witness ==
  /\ Len(returned) >= 1
  /\ Len(returned[1]) >= 2
  /\ Len(returned[1]) < Len(input)

\* C10: nonMaxSuppression applied to the list it returned returns the same
\* candidates in the same order.
C10_SuppressionIdempotent ==
  Len(returned) = 2 => returned[2] = returned[1]

\* the second call has returned, the first one having kept several
\* candidates (two of them of equal confidence) and suppressed another
C10_Witness ==
  /\ Len(returned) = 2
  /\ Len(returned[1]) >= 2
  /\ Len(returned[1]) < Len(input)
  /\ \E i, j \in 1..Len(returned[1]) :
       i # j /\ returned[1][i].confidence = returned[1][j].confidence

(***************************************************************************)
(* postprocess called on a raw output.                                     *)
(***************************************************************************)
InitPost ==
  /\ sharp = TRUE
  /\ env \in Envs
  /\ ProcIdle /\ NmsIdle /\ PrepIdle
  /\ output \in RawOutputs
  /\ detections = <<>>
  /\ postReturned = <<>>

Postprocess ==
  /\ Len(postReturned) = 0
  /\ detections' = Decode(output, CONFIDENCE_THRESHOLD(env.CONFIDENCE_THRESHOLD))
  /\ postReturned' = <<postprocess(output, env)>>
  /\ UNCHANGED <<env, procVars, nmsVars, prepVars, output>>

NextPost == Postprocess

SpecPost == InitPost /\ [][NextPost]_vars

\* the objectness of slot i (from 0) of the raw output
SlotConfidence(i) == output.data[i * output.dims[3] + 5]

\* C1: every candidate postprocess returns has a confidence at or above the
\* confidence threshold in force and comes from a slot with that confidence;
\* the candidate of a slot below the threshold is not in the result.
C1_ReturnedAtOrAboveThreshold ==
  \A r \in 1..Len(postReturned) :
    \A k \in 1..Len(postReturned[r]) :
      LET d == postReturned[r][k]
      IN /\ d.confidence >= CONFIDENCE_THRESHOLD(env.CONFIDENCE_THRESHOLD)
         /\ \E i \in 0..(output.dims[2] - 1) :
              /\ SlotConfidence(i) = d.confidence
              /\ SlotConfidence(i) >= CONFIDENCE_THRESHOLD(env.CONFIDENCE_THRESHOLD)

\* postprocess has returned a candidate while another slot was below the
\* threshold, under a configured threshold
C1_Witness ==
  /\ Len(postReturned) = 1
  /\ Len(postReturned[1]) >= 1
  /\ env.CONFIDENCE_THRESHOLD = <<90>>
  /\ \E i \in 0..(output.dims[2] - 1) : SlotConfidence(i) = 50

\* C8: a decoded candidate whose class index is an integer outside the label
\* table carries the label Unknown_<index> (Unknown_26, Unknown_99), and
\* postprocess returns.
C8_UnknownIndexLabel ==
  Len(postReturned) = 1 =>
    \A k \in 1..Len(detections) :
      LET d == detections[k]
      IN (d.class_id # <<>> /\ d.class_id[1] >= Len(CLASS_NAMES)) =>
           /\ d.label = "Unknown_" \o ToString(d.class_id[1])
           /\ d.class_id[1] = 99 => d.label = "Unknown_99"
           /\ d.class_id[1] = 26 => d.label = "Unknown_26"

\* a candidate with class index 99 was decoded and returned
C8_Witness ==
  /\ Len(postReturned) = 1
  /\ \E k \in 1..Len(postReturned[1]) :
       /\ postReturned[1][k].class_id = <<99>>
       /\ postReturned[1][k].label = "Unknown_99"

(***************************************************************************)
(* processImage and preloadModel on the shared imageProcessor.  A step is  *)
(* what runs between two awaits.                                           *)
(***************************************************************************)
\* the uploaded file: present or not, and which decoders can read it
\* (a readable image, a file no decoder reads, a missing file)
Files ==
  { f \in [exists : BOOLEAN, sharpOk : BOOLEAN, jimpOk : BOOLEAN] :
      /\ f.jimpOk => f.exists
      /\ f.sharpOk = f.jimpOk }

\* raw outputs model.run may give: no slot; two slots on the same box, 0.9
\* and 0.6, the second of class 1
ProcOutputs ==
  { [data |-> <<>>, dims |-> <<1, 0, 7>>],
    [data |-> <<0, 0, 2, 1, 90, 80, 0>> \o <<0, 0, 2, 1, 60, 0, 80>>,
     dims |-> <<1, 2, 7>>] }

Returned(d) == [kind |-> "returned", detections |-> d]
Threw(e) == [kind |-> "threw", error |-> e]

\* loadModel's catch block: throw new Error(`Cannot load ONNX model at ...`)
LoadFailure == Threw("ModelLoadError")

\* a decoder error reported as if the model had failed
DecodeFailureAsInference == Threw("InferenceError")

\* the rejection of Jimp.read, which nothing between jimpFallback and
\* processImage catches or wraps
DecodeFailure == Threw("ImageDecodeError")

\* a catch block that answers with a made-up detection instead of throwing
InferenceFallback ==
  Returned(<<[x |-> 0, y |-> 0, width |-> 1, height |-> 1, confidence |-> 80,
              class_id |-> <<0>>, label |-> CLASS_NAMES[1]]>>)

\* detectObjects' catch block: throw new Error("ONNX inference failed")
InferenceFailure == Threw("InferenceError")

\* a finally block that lets the error of unlinkSync escape
SettlePropagatingUnlink(outcome, unlinkOk) ==
  IF unlinkOk THEN outcome ELSE Threw("UnlinkError")

\* finally { try { fs.unlinkSync(filePath) } catch { console.warn(...) } }:
\* the outcome of try/catch stands whatever unlinkSync did.
Settle(outcome, unlinkOk) == outcome

\* unlinkSync throws on a missing file and may throw on a present one
UnlinkOutcomes(f) == IF f.exists THEN BOOLEAN ELSE {FALSE}

\* the end of processImage: return or rethrow, after the finally block;
\* detectObjects' const model is gone with its frame
Finish(p, events, outcome, unlinkOk) ==
  /\ intended' = [intended EXCEPT ![p] = outcome]
  /\ result' = [result EXCEPT ![p] = Settle(outcome, unlinkOk)]
  /\ trace' = [trace EXCEPT ![p] =
                 @ \o events \o <<IF unlinkOk THEN "unlinkSync" ELSE "unlinkSync:threw">>]
  /\ file' = [file EXCEPT ![p].exists = IF unlinkOk THEN FALSE ELSE @]
  /\ local' = [local EXCEPT ![p] = NoHandle]
  /\ pc' = [pc EXCEPT ![p] = "done"]

\* preprocessImage starts with sharp when it is there, with Jimp otherwise
FirstDecoder == IF sharp THEN "sharp" ELSE "jimp"

\* a test that also remembers a failed load and never loads again
CachedOrFailed == (modelLoaded /\ model # NoHandle) \/ loadFailed

\* loadModel's test: if (this.modelLoaded && this.model) return this.model
Cached == modelLoaded /\ model # NoHandle

Init ==
  /\ env = NoEnv
  /\ sharp \in BOOLEAN
  /\ ProcIdle /\ PostIdle /\ NmsIdle /\ PrepIdle

\* processImage(filePath) up to the first await: detectObjects calls
\* loadModel, which returns the cached handle or calls InferenceSession.create.
\* Invocations are numbered in the order they are made.
Begin(p) ==
  /\ pc[p] = "idle"
  /\ \A q \in Invocations : q < p => pc[q] # "idle"
  /\ \E f \in Files : file' = [file EXCEPT ![p] = f]
  /\ \/ /\ Cached
        /\ local' = [local EXCEPT ![p] = model]
        /\ pc' = [pc EXCEPT ![p] = FirstDecoder]
        /\ UNCHANGED retried
     \/ /\ ~Cached
        /\ pc' = [pc EXCEPT ![p] = "creating"]
        /\ retried' = (retried \/ loadFailed)
        /\ UNCHANGED local
  /\ UNCHANGED <<env, sharp, model, modelLoaded, created, loadFailed, preloadPc,
                 raw, intended, result, trace, postVars, nmsVars, prepVars>>

\* InferenceSession.create resolves: this.model = handle, modelLoaded = true,
\* return this.model; detectObjects goes on to preprocessImage
CreateOk(p) ==
  /\ pc[p] = "creating"
  /\ created' = created + 1
  /\ model' = created + 1
  /\ modelLoaded' = TRUE
  /\ local' = [local EXCEPT ![p] = created + 1]
  /\ pc' = [pc EXCEPT ![p] = FirstDecoder]
  /\ UNCHANGED <<env, sharp, loadFailed, retried, preloadPc, file, raw,
                 intended, result, trace, postVars, nmsVars, prepVars>>

\* InferenceSession.create rejects: loadModel throws "Cannot load ONNX model"
CreateFail(p) ==
  /\ pc[p] = "creating"
  /\ loadFailed' = TRUE
  /\ \E ok \in UnlinkOutcomes(file[p]) :
       Finish(p, <<"create:threw">>, LoadFailure, ok)
  /\ UNCHANGED <<env, sharp, model, modelLoaded, created, retried, preloadPc,
                 raw, postVars, nmsVars, prepVars>>

\* sharp(imagePath)...toBuffer() resolves; the tensor is built and model.run
\* is called
SharpOk(p) ==
  /\ pc[p] = "sharp"
  /\ file[p].sharpOk
  /\ pc' = [pc EXCEPT ![p] = "running"]
  /\ trace' = [trace EXCEPT ![p] = @ \o <<"sharp", "run">>]
  /\ UNCHANGED <<env, sharp, model, modelLoaded, created, loadFailed, retried,
                 preloadPc, local, file, raw, intended, result, postVars, nmsVars,
                 prepVars>>

\* sharp rejects: the catch block falls back to jimpFallback(imagePath)
SharpFail(p) ==
  /\ pc[p] = "sharp"
  /\ ~file[p].sharpOk
  /\ pc' = [pc EXCEPT ![p] = "jimp"]
  /\ trace' = [trace EXCEPT ![p] = Append(@, "sharp:threw")]
  /\ UNCHANGED <<env, sharp, model, modelLoaded, created, loadFailed, retried,
                 preloadPc, local, file, raw, intended, result, postVars, nmsVars,
                 prepVars>>

\* Jimp.read(imagePath) resolves; the tensor is built and model.run is called
JimpOk(p) ==
  /\ pc[p] = "jimp"
  /\ file[p].jimpOk
  /\ pc' = [pc EXCEPT ![p] = "running"]
  /\ trace' = [trace EXCEPT ![p] = @ \o <<"Jimp.read", "run">>]
  /\ UNCHANGED <<env, sharp, model, modelLoaded, created, loadFailed, retried,
                 preloadPc, local, file, raw, intended, result, postVars, nmsVars,
                 prepVars>>

\* Jimp.read rejects: nothing catches it before processImage
JimpFail(p) ==
  /\ pc[p] = "jimp"
  /\ ~file[p].jimpOk
  /\ \E ok \in UnlinkOutcomes(file[p]) :
       Finish(p, <<"Jimp.read:threw">>, DecodeFailure, ok)
  /\ UNCHANGED <<env, sharp, model, modelLoaded, created, loadFailed, retried,
                 preloadPc, raw, postVars, nmsVars, prepVars>>

\* model.run resolves: return this.postprocess(output)
RunOk(p) ==
  /\ pc[p] = "running"
  /\ \E out \in ProcOutputs :
       /\ raw' = [raw EXCEPT ![p] = <<out>>]
       /\ \E ok \in UnlinkOutcomes(file[p]) :
            Finish(p, <<"run:ok">>, Returned(postprocess(out, env)), ok)
  /\ UNCHANGED <<env, sharp, model, modelLoaded, created, loadFailed, retried,
                 preloadPc, postVars, nmsVars, prepVars>>

\* model.run rejects: throw new Error("ONNX inference failed")
RunFail(p) ==
  /\ pc[p] = "running"
  /\ \E ok \in UnlinkOutcomes(file[p]) :
       Finish(p, <<"run:threw">>, InferenceFailure, ok)
  /\ UNCHANGED <<env, sharp, model, modelLoaded, created, loadFailed, retried,
                 preloadPc, raw, postVars, nmsVars, prepVars>>

\* preloadModel(): await imageProcessor.loadModel()
PreloadBegin ==
  /\ preloadPc = "idle"
  /\ \/ /\ Cached
        /\ preloadPc' = "done"
     \/ /\ ~Cached
        /\ preloadPc' = "creating"
  /\ UNCHANGED <<env, sharp, model, modelLoaded, created, loadFailed, retried, pc, local,
                 file, raw, intended, result, trace, postVars, nmsVars, prepVars>>

PreloadCreateOk ==
  /\ preloadPc = "creating"
  /\ created' = created + 1
  /\ model' = created + 1
  /\ modelLoaded' = TRUE
  /\ preloadPc' = "done"
  /\ UNCHANGED <<env, sharp, loadFailed, retried, pc, local, file, raw,
                 intended, result, trace, postVars, nmsVars, prepVars>>

PreloadCreateFail ==
  /\ preloadPc = "creating"
  /\ loadFailed' = TRUE
  /\ preloadPc' = "failed"
  /\ UNCHANGED <<env, sharp, model, modelLoaded, created, retried, pc, local,
                 file, raw, intended, result, trace, postVars, nmsVars, prepVars>>

Next ==
  \/ \E p \in Invocations :
       \/ Begin(p)
       \/ CreateOk(p)
       \/ CreateFail(p)
       \/ SharpOk(p)
       \/ SharpFail(p)
       \/ JimpOk(p)
       \/ JimpFail(p)
       \/ RunOk(p)
       \/ RunFail(p)
  \/ PreloadBegin
  \/ PreloadCreateOk
  \/ PreloadCreateFail

Spec == Init /\ [][Next]_vars

Done(p) == pc[p] = "done"

\* the calls of the cleanup, as the trace records them
UnlinkCalls == {"unlinkSync", "unlinkSync:threw"}

\* no decoder reads the file of invocation p
Unreadable(p) == ~file[p].sharpOk /\ ~file[p].jimpOk

\* C3: an invocation that has completed has called unlinkSync on its file as
\* its last call, whatever the exit path, and its caller observes exactly
\* what try/catch settled on, whether unlinkSync threw or not.
C3_CleanupAlwaysAndSilent ==
  \A p \in Invocations :
    Done(p) =>
      /\ Len(trace[p]) >= 2
      /\ trace[p][Len(trace[p])] \in UnlinkCalls
      /\ result[p].kind \in {"returned", "threw"}
      /\ result[p] = intended[p]

\* on each exit path an invocation whose unlinkSync threw: a success, a
\* model-load failure, an image-decode failure, an inference failure
C3_Witness ==
  \E p \in Invocations :
    /\ Done(p)
    /\ trace[p][Len(trace[p])] = "unlinkSync:threw"
    /\ result[p].kind = "returned"
    /\ \E q \in Invocations :
         /\ q # p
         /\ Done(q)
         /\ trace[q][Len(trace[q])] = "unlinkSync:threw"
         /\ result[q] \in {LoadFailure, DecodeFailure, InferenceFailure}

\* C4: the model handle is initialized at most once: at most one call of
\* InferenceSession.create succeeds, and a stored handle is never replaced.
C4_HandleInitializedOnce ==
  [][ /\ created' <= 1
      /\ model # NoHandle => model' = model ]_vars

\* C5: an invocation whose model.run failed throws the inference error; an
\* invocation ends by throwing or by returning exactly the suppressed decode
\* of the raw output model.run gave it, and returns only after a model.run
\* that succeeded.
C5_CompleteOrError ==
  \A p \in Invocations :
    Done(p) =>
      /\ result[p].kind \in {"returned", "threw"}
      /\ "run:threw" \in { trace[p][i] : i \in 1..Len(trace[p]) }
           => result[p] = Threw("InferenceError")
      /\ result[p].kind = "returned" =>
           /\ "run:ok" \in { trace[p][i] : i \in 1..Len(trace[p]) }
           /\ raw[p] # <<>>
           /\ result[p].detections =
                nonMaxSuppression(
                  Decode(raw[p][1], CONFIDENCE_THRESHOLD(env.CONFIDENCE_THRESHOLD)),
                  NMS_THRESHOLD(env.NMS_THRESHOLD))

\* one invocation failed in model.run, another returned a list from which
\* suppression had removed a candidate
C5_Witness ==
  \E p, q \in Invocations :
    /\ Done(p) /\ Done(q)
    /\ result[p] = Threw("InferenceError")
    /\ result[q].kind = "returned"
    /\ Len(result[q].detections) = 1
    /\ raw[q][1].dims[2] = 2

Colours ==
  { [r |-> 255, g |-> 0, b |-> 0], [r |-> 0, g |-> 255, b |-> 0],
    [r |-> 10, g |-> 20, b |-> 30] }

Pixels == (0..(Width - 1)) \X (0..(Height - 1))

InitPrep ==
  /\ env = NoEnv
  /\ sharp \in BOOLEAN
  /\ ProcIdle /\ PostIdle /\ NmsIdle
  /\ image \in [Pixels -> Colours]
  /\ decodable \in [sharp : BOOLEAN, jimp : BOOLEAN]
  /\ tensor = <<>>

\* the sharp branch succeeds
PreprocessSharp ==
  /\ tensor = <<>>
  /\ sharp /\ decodable.sharp
  /\ tensor' = <<Tensor(SharpData(image, Width, Height), Width, Height)>>
  /\ UNCHANGED <<env, procVars, postVars, nmsVars, image, decodable>>

\* sharp is missing or throws, and jimpFallback succeeds
PreprocessJimp ==
  /\ tensor = <<>>
  /\ ~(sharp /\ decodable.sharp)
  /\ decodable.jimp
  /\ tensor' = <<Tensor(JimpData(image, Width, Height), Width, Height)>>
  /\ UNCHANGED <<env, procVars, postVars, nmsVars, image, decodable>>

\* sharp is missing or throws, and Jimp.read throws
PreprocessFail ==
  /\ tensor = <<>>
  /\ ~(sharp /\ decodable.sharp)
  /\ ~decodable.jimp
  /\ tensor' = <<DecodeFailure>>
  /\ UNCHANGED <<env, procVars, postVars, nmsVars, image, decodable>>

NextPrep == PreprocessSharp \/ PreprocessJimp \/ PreprocessFail

SpecPrep == InitPrep /\ [][NextPrep]_vars

\* C9: the tensor is planar: for the pixel in row r and column c, red is at
\* index r*W + c, green at H*W + r*W + c and blue at 2*H*W + r*W + c (from
\* 0), each the channel byte over 255.
C9_PlanarChannelMajor ==
  (Len(tensor) = 1 /\ "data" \in DOMAIN tensor[1]) =>
    \A r \in 0..(Height - 1), c \in 0..(Width - 1) :
      LET d == tensor[1].data
          px == image[<<c, r>>]
      IN /\ d[r * Width + c + 1] = [num |-> px.r, den |-> 255]
         /\ d[Height * Width + r * Width + c + 1] = [num |-> px.g, den |-> 255]
         /\ d[2 * Height * Width + r * Width + c + 1] = [num |-> px.b, den |-> 255]

(***************************************************************************)
(* Further properties of nonMaxSuppression (under SpecNMS).                *)
(***************************************************************************)
\* q = k as numbers: a quotient that divides by zero equals no threshold.
EqualTo(q, k) == q.den # 0 /\ q.num * k.den = k.num * q.den

\* the candidates of a list, as a set
Elements(s) == { s[i] : i \in 1..Len(s) }

\* C14: a candidate whose IoU with a kept candidate is exactly the threshold
\* does not stay: no candidate of the input that differs from a returned
\* candidate s and has IoU(s, c) = threshold is returned, and every two
\* returned candidates have an IoU strictly below the threshold.
C14_AtThresholdRemoved ==
  Len(returned) >= 1 =>
    /\ \A s \in Elements(returned[1]) :
         \A c \in Elements(input) :
           (c # s /\ EqualTo(iou(s, c), threshold)) => c \notin Elements(returned[1])
    /\ \A i, j \in 1..Len(returned[1]) :
         i < j => /\ ~EqualTo(iou(returned[1][i], returned[1][j]), threshold)
                  /\ LessThan(iou(returned[1][i], returned[1][j]), threshold)

\* a call with a threshold strictly between 0 and 1 that removed a candidate
\* whose IoU with the first kept candidate is exactly the threshold, and
\* kept another one
C14_Witness ==
  /\ Len(returned) >= 1
  /\ threshold = Quotient(1, 2)
  /\ Len(returned[1]) >= 2
  /\ \E c \in Elements(input) :
       /\ EqualTo(iou(returned[1][1], c), threshold)
       /\ c \notin Elements(returned[1])

\* two candidates with the same x, y, width and height
SameGeometry(a, b) ==
  /\ a.x = b.x /\ a.y = b.y
  /\ a.width = b.width /\ a.height = b.height

\* C12: called on two candidates of identical geometry and different
\* confidences with a threshold below 1, nonMaxSuppression returns exactly
\* one candidate, the one of higher confidence.
C12_IdenticalBoxesKeepHigher ==
  ( /\ Len(returned) >= 1
    /\ Len(input) = 2
    /\ SameGeometry(input[1], input[2])
    /\ input[1].confidence # input[2].confidence
    /\ threshold.num < threshold.den )
  => returned[1] = << IF input[1].confidence > input[2].confidence
                      THEN input[1] ELSE input[2] >>

\* such a call has returned, the candidate of higher confidence having been
\* passed second, with a threshold strictly between 0 and 1
C12_Witness ==
  /\ Len(returned) >= 1
  /\ Len(input) = 2
  /\ SameGeometry(input[1], input[2])
  /\ input[1].confidence < input[2].confidence
  /\ input[1].width * input[1].height > 0
  /\ threshold = Quotient(2, 5)
  /\ returned[1] = <<input[2]>>

\* how many times candidate v occurs in the list s
Count(s, v) == Cardinality({ i \in 1..Len(s) : s[i] = v })

\* C20: nonMaxSuppression returns after at most one round per candidate
\* passed (each round moves one candidate into the result); the list it
\* returns holds only candidates of the input, each unaltered and no more
\* often than the input holds it, in non-increasing order of confidence,
\* and for a non-empty input its first element is an input candidate of
\* maximum confidence.
C20_ReturnsSortedSubCollection ==
  Len(returned) >= 1 =>
    LET selected == returned[1]
    IN /\ Len(selected) <= Len(input)
       /\ \A v \in Elements(selected) :
            /\ v \in Elements(input)
            /\ Count(selected, v) <= Count(input, v)
       /\ \A i, j \in 1..Len(selected) :
            i < j => selected[i].confidence >= selected[j].confidence
       /\ Len(input) > 0 =>
            /\ Len(selected) > 0
            /\ selected[1] \in Elements(input)
            /\ \A c \in Elements(input) : selected[1].confidence >= c.confidence

\* a call on three candidates, not passed in order of confidence, that
\* returned two of them with different confidences
C20_Witness ==
  /\ Len(returned) >= 1
  /\ Len(input) = 3
  /\ input[1].confidence < input[3].confidence
  /\ Len(returned[1]) = 2
  /\ returned[1][1].confidence > returned[1][2].confidence

\* C13: after a call of nonMaxSuppression the array the caller passed holds
\* the same candidates in the same order as before the call.
C13_CallerSequenceUnchanged ==
  Len(returned) >= 1 => boxes = input

\* C15: for two candidates whose areas and intersection add up to 0 (two
\* zero-area boxes) the IoU counts as 0: called on two such candidates with
\* a threshold above 0, nonMaxSuppression returns both.
C15_ZeroAreaPairNotSuppressed ==
  ( /\ Len(returned) >= 1
    /\ Len(input) = 2
    /\ iou(input[1], input[2]).den = 0
    /\ threshold.num > 0 )
  => /\ Len(returned[1]) = 2
     /\ Elements(returned[1]) = Elements(input)

\* C11: for two candidates that do not overlap (their intersection has no
\* area) the IoU is the number 0 and nonMaxSuppression, called on the two,
\* returns both, whatever the threshold.
C11_DisjointBothReturned ==
  ( /\ Len(returned) >= 1
    /\ Len(input) = 2
    /\ ~SameGeometry(input[1], input[2])
    /\ iou(input[1], input[2]).num = 0 )
  => /\ iou(input[1], input[2]).den # 0
     /\ Len(returned[1]) = 2
     /\ Elements(returned[1]) = Elements(input)

\* C19: every candidate passed and not returned has a returned candidate of
\* at least its confidence whose IoU with it is a number (not 0/0) at or
\* above the threshold.
C19_RemovalJustified ==
  Len(returned) >= 1 =>
    \A c \in Elements(input) \ Elements(returned[1]) :
      \E s \in Elements(returned[1]) :
        /\ s.confidence >= c.confidence
        /\ iou(s, c).den > 0
        /\ iou(s, c).num * threshold.den >= threshold.num * iou(s, c).den

\* C16: for every two candidates passed, the IoU nonMaxSuppression uses
\* is the IoU of the boxes centred at (x, y), with corners
\* (x - w/2, y - h/2) and (x + w/2, y + h/2).  The centred boxes are computed
\* in doubled coordinates (corners 2x - w and 2x + w, areas times 4), which
\* leaves the quotient unchanged.
C16_IouOfCentredBoxes ==
  Len(returned) >= 1 =>
    \A a \in Elements(input) :
      \A b \in Elements(input) :
        LET x1 == Max(2 * a.x - a.width, 2 * b.x - b.width)
            y1 == Max(2 * a.y - a.height, 2 * b.y - b.height)
            x2 == Min(2 * a.x + a.width, 2 * b.x + b.width)
            y2 == Min(2 * a.y + a.height, 2 * b.y + b.height)
            intersection == Max(0, x2 - x1) * Max(0, y2 - y1)
            union == 4 * a.width * a.height + 4 * b.width * b.height - intersection
            used == iou(a, b)
        IN \/ used.den = 0 /\ union = 0
           \/ /\ used.den # 0
              /\ union # 0
              /\ used.num * union = intersection * used.den

(***************************************************************************)
(* Further properties of postprocess (under SpecPost).                     *)
(***************************************************************************)
\* the candidate decoded from slot i (from 0) of the raw output
SlotDetection(i) == Detection(output.data, i * output.dims[3], output.dims[3])

\* the slots whose objectness passes the confidence filter, in slot order
AdmittedSlots ==
  SelectSeq([k \in 1..output.dims[2] |-> k - 1],
            LAMBDA i : SlotConfidence(i) >= CONFIDENCE_THRESHOLD(env.CONFIDENCE_THRESHOLD))

\* C17: the array handed to nonMaxSuppression lists the admitted slots'
\* candidates in slot order, and two different candidates of equal
\* confidence that postprocess returns come from slots in that same order
\* (the sort by descending confidence does not reorder ties).
C17_TiesKeepSlotOrder ==
  Len(postReturned) = 1 =>
    /\ detections = [k \in 1..Len(AdmittedSlots) |-> SlotDetection(AdmittedSlots[k])]
    /\ \A i, j \in 1..Len(postReturned[1]) :
         ( /\ i < j
           /\ postReturned[1][i].confidence = postReturned[1][j].confidence
           /\ postReturned[1][i] # postReturned[1][j] )
         => \E p, q \in 0..(output.dims[2] - 1) :
              /\ p < q
              /\ SlotConfidence(p) >= CONFIDENCE_THRESHOLD(env.CONFIDENCE_THRESHOLD)
              /\ SlotConfidence(q) >= CONFIDENCE_THRESHOLD(env.CONFIDENCE_THRESHOLD)
              /\ SlotDetection(p) = postReturned[1][i]
              /\ SlotDetection(q) = postReturned[1][j]

\* postprocess returned two different candidates of equal confidence, in
\* the order of their slots
C17_Witness ==
  /\ Len(postReturned) = 1
  /\ output.dims[2] = 2
  /\ Len(postReturned[1]) = 2
  /\ postReturned[1][1].confidence = postReturned[1][2].confidence
  /\ postReturned[1][1] # postReturned[1][2]
  /\ postReturned[1][1] = SlotDetection(0)
  /\ postReturned[1][2] = SlotDetection(1)

\* C18: with at least one class, the candidate decoded from a slot that
\* passes the confidence filter has the objectness of the slot as its
\* confidence and, as its class_id, an integer in 0..numClasses-1: the lowest
\* index at which the slot's class scores are maximal, whatever the scores
\* (all 0, negative).
C18_ClassIsArgMax ==
  (Len(postReturned) = 1 /\ output.dims[3] > 5) =>
    \A k \in 1..Len(detections) :
      LET i == AdmittedSlots[k]
          numClasses == output.dims[3] - 5
          score(c) == output.data[i * output.dims[3] + 5 + c + 1]
          d == detections[k]
      IN /\ d.confidence = SlotConfidence(i)
         /\ d.class_id # <<>>
         /\ d.class_id[1] \in 0..(numClasses - 1)
         /\ \A c \in 0..(numClasses - 1) :
              /\ score(d.class_id[1]) >= score(c)
              /\ score(c) = score(d.class_id[1]) => d.class_id[1] <= c

=============================================================================
